---- MODULE Spec2Model ----
(***************************************************************************)
(* Ride matching and lifecycle engine of the campus ride-share backend:    *)
(* the later route set of routes/rides.js (POST /, /match, /:id/join,      *)
(* /:id/join-match, /:id/leave, /:id/complete, DELETE /:id), the           *)
(* destination grouping helpers, and cleanupExpiredRides of server.js.     *)
(* The MySQL tables rides, ride_participants and messages are sets of rows. *)
(***************************************************************************)
EXTENDS Integers, Sequences, FiniteSets, TLC

VARIABLES
  rides,              \* table rides: set of rows
  ride_participants,  \* table ride_participants: set of rows
  next_ride_id,       \* AUTO_INCREMENT counter of rides.id
  messages,           \* table messages: set of rows
  next_message_id,    \* AUTO_INCREMENT counter of messages.id
  now,                \* the clock read by NOW() and by the sweeper
  res,                \* the last HTTP response sent, with the handler's locals
  procs,              \* in-flight requests of the interleaved specification
  args                \* the inputs of the pure-function specification

vars == <<rides, ride_participants, next_ride_id, messages, next_message_id,
          now, res, procs, args>>

store == <<rides, ride_participants, next_ride_id>>

(***************************************************************************)
(* Bounds of the model.                                                    *)
(***************************************************************************)
NumUsers == 3        \* users of the lifecycle specification
NumCapUsers == 7     \* users of the capacity specification (> forcedMaxSeats)
MaxClock == 1        \* the clock runs over 0..MaxClock
SlotsPerDay == 1     \* clock slots per civil day (times of day 0..SlotsPerDay-1)

Users == 1..NumUsers
CapUsers == 1..NumCapUsers
RideIds == {1}       \* the ride under study; handlers touch rows of one ride id

(***************************************************************************)
(* Program constants.                                                      *)
(***************************************************************************)
forcedMaxSeats == 6

NULL == 0            \* SQL NULL of completed_by / completed_at (user ids are >= 1)

currentDate == now \div SlotsPerDay
currentTime == now % SlotsPerDay

(***************************************************************************)
(* Destination grouping.                                                   *)
(***************************************************************************)
DESTINATION_GROUPS ==
  << [group |-> "transport_hub",
      destinations |-> <<"Railway Station", "Bus Stand", "Vijetha Mart",
                         "Connplex Cinemas", "Tadepalligudem Highway">>],
     [group |-> "nit_back", destinations |-> <<"NIT Back Gate">>],
     [group |-> "nit_front", destinations |-> <<"NIT Front Gate">>],
     [group |-> "shopping",
      destinations |-> <<"Bus Stand", "Vijetha Mart", "Connplex Cinemas",
                         "Jio Mart", "GV Mall">>],
     [group |-> "theatres",
      destinations |-> <<"Sri Ranga Mahal Theatre", "Sri Seshmahal Theatre">>] >>

Range(s) == {s[i] : i \in DOMAIN s}

includes(arr, x) == \E i \in DOMAIN arr : arr[i] = x

filter(arr, Keep(_)) == SelectSeq(arr, Keep)

GroupNamed(name) ==
  (CHOOSE i \in DOMAIN DESTINATION_GROUPS : DESTINATION_GROUPS[i].group = name)

TableDestinations ==
  UNION {Range(DESTINATION_GROUPS[i].destinations) : i \in DOMAIN DESTINATION_GROUPS}

\* Destinations a client can send: the table, a table entry typed in another
\* letter case, and two places the table does not list.
OtherDestinations == {"bus stand", "Library", "Airport"}

Destinations == TableDestinations \cup OtherDestinations

\* SQL LOWER() on the destinations of the model.
LOWER(s) ==
  CASE s = "Railway Station" -> "railway station"
    [] s = "Bus Stand" -> "bus stand"
    [] s = "Vijetha Mart" -> "vijetha mart"
    [] s = "Connplex Cinemas" -> "connplex cinemas"
    [] s = "Tadepalligudem Highway" -> "tadepalligudem highway"
    [] s = "NIT Back Gate" -> "nit back gate"
    [] s = "NIT Front Gate" -> "nit front gate"
    [] s = "Jio Mart" -> "jio mart"
    [] s = "GV Mall" -> "gv mall"
    [] s = "Sri Ranga Mahal Theatre" -> "sri ranga mahal theatre"
    [] s = "Sri Seshmahal Theatre" -> "sri seshmahal theatre"
    [] s = "Library" -> "library"
    [] s = "Airport" -> "airport"
    [] OTHER -> s

\* for (const [groupName, destinations] of Object.entries(...)): first hit wins
getDestinationGroup(destination) ==
  LET hits == {i \in DOMAIN DESTINATION_GROUPS :
                 includes(DESTINATION_GROUPS[i].destinations, destination)}
  IN IF hits # {}
       THEN DESTINATION_GROUPS[CHOOSE i \in hits : \A j \in hits : i <= j]
       ELSE [group |-> "other", destinations |-> <<destination>>]

\* the resolver with the overlap case tested in one direction only
areDestinationsCompatibleOneWay(dest1, dest2) ==
  LET group1 == getDestinationGroup(dest1)
      group2 == getDestinationGroup(dest2)
  IN IF dest1 = dest2 THEN TRUE
     ELSE IF group1.group = group2.group THEN TRUE
     ELSE IF group1.group = "transport_hub" /\ group2.group = "shopping"
       THEN LET inGroup2(d) == includes(group2.destinations, d)
            IN Len(filter(group1.destinations, inGroup2)) > 0
     ELSE FALSE

areDestinationsCompatible(dest1, dest2) ==
  LET group1 == getDestinationGroup(dest1)
      group2 == getDestinationGroup(dest2)
  IN IF dest1 = dest2 THEN TRUE
     ELSE IF group1.group = group2.group THEN TRUE
     ELSE IF \/ (group1.group = "transport_hub" /\ group2.group = "shopping")
             \/ (group1.group = "shopping" /\ group2.group = "transport_hub")
       THEN LET inGroup2(d) == includes(group2.destinations, d)
                overlap == filter(group1.destinations, inGroup2)
            IN Len(overlap) > 0
     ELSE FALSE

(***************************************************************************)
(* Tables.                                                                 *)
(***************************************************************************)
RideRows(rideId) == {r \in rides : r.id = rideId}

ParticipantsOf(tbl, rideId) == {p \in tbl : p.ride_id = rideId}

\* SELECT COUNT(*) FROM ride_participants WHERE ride_id = ?
CountOf(tbl, rideId) == Cardinality(ParticipantsOf(tbl, rideId))

\* a count that leaves the creator's row out
participant_countOthers(rideId) ==
  Cardinality({p \in ride_participants :
                 /\ p.ride_id = rideId
                 /\ \A r \in rides : r.id = rideId => p.user_id # r.creator_id})

\* the count the join handlers read
participant_count(rideId) == CountOf(ride_participants, rideId)

\* the row check answering FALSE for every user
HasRowNever(tbl, rideId, userId) == FALSE

HasRow(tbl, rideId, userId) ==
  \E p \in tbl : p.ride_id = rideId /\ p.user_id = userId

\* INSERT INTO ride_participants (ride_id, user_id, joined_at) VALUES (?, ?, NOW())
ParticipantRow(rideId, userId) ==
  [ride_id |-> rideId, user_id |-> userId, joined_at |-> now]

\* UPDATE rides SET ... WHERE id = ?
UpdateRide(tbl, rideId, Set(_)) ==
  {IF r.id = rideId THEN Set(r) ELSE r : r \in tbl}

\* DELETE FROM rides WHERE id = ?  (ON DELETE CASCADE on ride_participants
\* and on messages)
DeleteRideCascade(rideId) ==
  /\ rides' = {r \in rides : r.id # rideId}
  /\ ride_participants' = {p \in ride_participants : p.ride_id # rideId}
  /\ messages' = {m \in messages : m.ride_id # rideId}
  /\ UNCHANGED next_message_id

NoResponse ==
  [route |-> "none", userId |-> 0, rideId |-> 0, status |-> 0,
   message |-> "", isFirstJoin |-> FALSE]

\* res.status(code).json({message})
Respond(route, userId, rideId, status, message, first) ==
  res' = [route |-> route, userId |-> userId, rideId |-> rideId,
          status |-> status, message |-> message, isFirstJoin |-> first]

(***************************************************************************)
(* Ride Matcher.                                                           *)
(***************************************************************************)
\* destinationParams as built for the SQL of findMatchingRides and POST /
destinationParams(destination) ==
  LET destGroup == getDestinationGroup(destination)
      exact == <<destination>>
      notSelf(d) == d # destination
      grouped == IF destGroup.group # "other"
                   THEN exact \o filter(destGroup.destinations, notSelf)
                   ELSE exact
      otherGroup == IF destGroup.group = "transport_hub"
                      THEN "shopping" ELSE "transport_hub"
      inDestGroup(d) == includes(destGroup.destinations, d)
      overlappingDests ==
        filter(DESTINATION_GROUPS[GroupNamed(otherGroup)].destinations, inDestGroup)
      fresh(d) == ~includes(grouped, d)
  IN IF destGroup.group \in {"transport_hub", "shopping"}
       THEN grouped \o filter(overlappingDests, fresh)
       ELSE grouped

\* (LOWER(r.destination) = LOWER(?) OR ...)
destinationSQL(rowDestination, params) ==
  \E i \in DOMAIN params : LOWER(rowDestination) = LOWER(params[i])

\* the four-clause time condition of findMatchingRides
\* the time condition with its endpoint clauses only
timeWindowSQLEndpoints(r, timeStart, timeEnd) ==
  \/ (r.time_window_start <= timeStart /\ r.time_window_end >= timeStart)
  \/ (r.time_window_start <= timeEnd /\ r.time_window_end >= timeEnd)

timeWindowSQL(r, timeStart, timeEnd) ==
  \/ (r.time_window_start <= timeStart /\ r.time_window_end >= timeStart)
  \/ (r.time_window_start <= timeEnd /\ r.time_window_end >= timeEnd)
  \/ (r.time_window_start >= timeStart /\ r.time_window_end <= timeEnd)
  \/ (timeStart >= r.time_window_start /\ timeEnd <= r.time_window_end)

\* the SELECT without "AND r.creator_id != ?"
findMatchingRidesInOwnToo(ridesTbl, partsTbl, destination, timeStart, timeEnd, date, userId) ==
  {r \in ridesTbl :
     /\ r.status \in {"active", "waiting"}
     /\ r.date = date
     /\ destinationSQL(r.destination, destinationParams(destination))
     /\ timeWindowSQL(r, timeStart, timeEnd)
     /\ CountOf(partsTbl, r.id) < r.max_seats}

\* The rows the SELECT of findMatchingRides returns, over given tables.  The
\* model holds fewer than five rides, so LIMIT 5 cuts nothing.
findMatchingRidesIn(ridesTbl, partsTbl, destination, timeStart, timeEnd, date, userId) ==
  {r \in ridesTbl :
     /\ r.status \in {"active", "waiting"}
     /\ r.creator_id # userId
     /\ r.date = date
     /\ destinationSQL(r.destination, destinationParams(destination))
     /\ timeWindowSQL(r, timeStart, timeEnd)
     /\ CountOf(partsTbl, r.id) < r.max_seats}

findMatchingRides(destination, timeStart, timeEnd, date, userId) ==
  findMatchingRidesIn(rides, ride_participants,
                      destination, timeStart, timeEnd, date, userId)

(***************************************************************************)
(* Ride Lifecycle Manager: each handler runs to completion in one step.    *)
(***************************************************************************)
idle == UNCHANGED <<procs, args>>

\* a handler that does not write table messages
keepMessages == UNCHANGED <<messages, next_message_id>>

\* the capacity check comparing the count read, not the count after the join
RideIsFullLate(ride, count) == count > ride.max_seats

\* if (currentParticipants + seatsNeeded > ride.max_seats): "Ride is full",
\* with seatsNeeded = isFirstJoin ? 2 : 1
RideIsFull(ride, count) ==
  count + (IF count = 0 THEN 2 ELSE 1) > ride.max_seats

\* a join that never adds the creator
JoinInsertsUserOnly(rideId, userId, creatorId, isFirstJoin) ==
  {ParticipantRow(rideId, userId)}

\* the rows a join inserts: the joining user and, on a first join, the creator
JoinInserts(rideId, userId, creatorId, isFirstJoin) ==
  {ParticipantRow(rideId, userId)} \cup
  (IF isFirstJoin THEN {ParticipantRow(rideId, creatorId)} ELSE {})

\* newCount >= ride.max_seats ? UPDATE status = 'full', current_seats : UPDATE current_seats
JoinUpdate(ride, newCount) ==
  IF newCount >= ride.max_seats
    THEN [ride EXCEPT !.status = "full", !.current_seats = newCount]
    ELSE [ride EXCEPT !.current_seats = newCount]

\* POST /:id/join
Join(userId, rideId) ==
  LET found == {r \in rides : r.id = rideId /\ r.status = "active"}
      ride == CHOOSE r \in found : TRUE
      currentParticipants == participant_count(rideId)
      isFirstJoin == currentParticipants = 0
      newCount == IF isFirstJoin THEN currentParticipants + 2
                                 ELSE currentParticipants + 1
      inserted == JoinInserts(rideId, userId, ride.creator_id, isFirstJoin)
      setRide(r) == JoinUpdate(r, newCount)
  IN /\ idle /\ keepMessages /\ UNCHANGED <<next_ride_id, now>>
     /\ IF found = {}
          THEN /\ Respond("join", userId, rideId, 404, "Ride not found or not active", FALSE)
               /\ UNCHANGED <<rides, ride_participants>>
        ELSE IF ride.creator_id = userId
          THEN /\ Respond("join", userId, rideId, 400, "As the ride creator, you are automatically added", FALSE)
               /\ UNCHANGED <<rides, ride_participants>>
        ELSE IF HasRow(ride_participants, rideId, userId)
          THEN /\ Respond("join", userId, rideId, 400, "You have already joined this ride", FALSE)
               /\ UNCHANGED <<rides, ride_participants>>
        ELSE IF RideIsFull(ride, currentParticipants)
          THEN /\ Respond("join", userId, rideId, 400, "Ride is full", isFirstJoin)
               /\ UNCHANGED <<rides, ride_participants>>
        ELSE /\ ride_participants' = ride_participants \cup inserted
             /\ rides' = UpdateRide(rides, rideId, setRide)
             /\ Respond("join", userId, rideId, 200, "Successfully joined the ride", isFirstJoin)

\* the UPDATE of join-match writing current_seats only
JoinMatchUpdateSeatsOnly(ride, newParticipantCount) ==
  [ride EXCEPT !.current_seats = newParticipantCount]

\* newStatus = newParticipantCount >= ride.max_seats ? "full" : "active"
JoinMatchUpdate(ride, newParticipantCount) ==
  [ride EXCEPT !.status = IF newParticipantCount >= ride.max_seats
                            THEN "full" ELSE "active",
               !.current_seats = newParticipantCount]

\* POST /:id/join-match
JoinMatch(userId, rideId) ==
  LET found == {r \in rides : r.id = rideId /\ r.status \in {"active", "waiting"}}
      ride == CHOOSE r \in found : TRUE
      count == participant_count(rideId)
      isFirstJoin == count = 0
      newParticipantCount == IF isFirstJoin THEN count + 2 ELSE count + 1
      inserted == JoinInserts(rideId, userId, ride.creator_id, isFirstJoin)
      setRide(r) == JoinMatchUpdate(r, newParticipantCount)
  IN /\ idle /\ keepMessages /\ UNCHANGED <<next_ride_id, now>>
     /\ IF found = {}
          THEN /\ Respond("join-match", userId, rideId, 404, "Ride not found or no longer available", FALSE)
               /\ UNCHANGED <<rides, ride_participants>>
        ELSE IF ride.creator_id = userId
          THEN /\ Respond("join-match", userId, rideId, 400, "As the ride creator, you are automatically added", FALSE)
               /\ UNCHANGED <<rides, ride_participants>>
        ELSE IF RideIsFull(ride, count)
          THEN /\ Respond("join-match", userId, rideId, 400, "Ride is full", isFirstJoin)
               /\ UNCHANGED <<rides, ride_participants>>
        ELSE IF HasRow(ride_participants, rideId, userId)
          THEN /\ Respond("join-match", userId, rideId, 400, "You have already joined this ride", FALSE)
               /\ UNCHANGED <<rides, ride_participants>>
        ELSE /\ ride_participants' = ride_participants \cup inserted
             /\ rides' = UpdateRide(rides, rideId, setRide)
             /\ Respond("join-match", userId, rideId, 200, "Successfully joined the ride!", isFirstJoin)

\* the same query without "AND user_id != ?"
nextParticipantsOwnToo(rideId, userId) ==
  LET all == ParticipantsOf(ride_participants, rideId)
  IN {p \in all : \A q \in all : p.joined_at <= q.joined_at}

\* the same query with ORDER BY joined_at DESC
nextParticipantsLatest(rideId, userId) ==
  LET others == {p \in ParticipantsOf(ride_participants, rideId) : p.user_id # userId}
  IN {p \in others : \A q \in others : p.joined_at >= q.joined_at}

\* SELECT user_id FROM ride_participants WHERE ride_id = ? AND user_id != ?
\* ORDER BY joined_at ASC LIMIT 1: the rows MySQL may return (any of the
\* rows with the least joined_at; NOW() has a resolution of one second).
nextParticipants(rideId, userId) ==
  LET others == {p \in ParticipantsOf(ride_participants, rideId) : p.user_id # userId}
  IN {p \in others : \A q \in others : p.joined_at <= q.joined_at}

\* the DELETE bound to the promoted user instead of the leaving creator
RemoveNewCreatorRow(rideId, userId, newCreatorId) ==
  {p \in ride_participants : ~(p.ride_id = rideId /\ p.user_id = newCreatorId)}

\* DELETE FROM ride_participants WHERE ride_id = ? AND user_id = ? [rideId, userId]
RemoveOnTransfer(rideId, userId, newCreatorId) ==
  {p \in ride_participants : ~(p.ride_id = rideId /\ p.user_id = userId)}

\* the cancelling UPDATE left out
cancelRideKeepsStatus(ride) == ride

\* UPDATE rides SET status = 'cancelled' WHERE id = ?
cancelRide(ride) == [ride EXCEPT !.status = "cancelled"]

\* POST /:id/leave
Leave(userId, rideId) ==
  LET found == RideRows(rideId)
      ride == CHOOSE r \in found : TRUE
      candidates == nextParticipants(rideId, userId)
  IN /\ idle /\ keepMessages /\ UNCHANGED <<next_ride_id, now>>
     /\ IF ~HasRow(ride_participants, rideId, userId)
          THEN /\ Respond("leave", userId, rideId, 400, "You are not in this ride", FALSE)
               /\ UNCHANGED <<rides, ride_participants>>
        ELSE IF found = {}
          THEN /\ Respond("leave", userId, rideId, 404, "Ride not found", FALSE)
               /\ UNCHANGED <<rides, ride_participants>>
        ELSE IF ride.creator_id = userId
          THEN IF candidates # {}
                 THEN \E next \in candidates :
                        LET newCreatorId == next.user_id
                            left == RemoveOnTransfer(rideId, userId, newCreatorId)
                            setRide(r) == [r EXCEPT !.creator_id = newCreatorId,
                                                    !.current_seats = CountOf(left, rideId)]
                        IN /\ ride_participants' = left
                           /\ rides' = UpdateRide(rides, rideId, setRide)
                           /\ Respond("leave", userId, rideId, 200, "Successfully left the ride. Ownership transferred", FALSE)
                 ELSE LET setRide(r) == cancelRide(r)
                      IN /\ rides' = UpdateRide(rides, rideId, setRide)
                         /\ ride_participants' =
                              {p \in ride_participants : p.ride_id # rideId}
                         /\ Respond("leave", userId, rideId, 200, "Ride cancelled as no other participants were available", FALSE)
        ELSE LET left == {p \in ride_participants :
                            ~(p.ride_id = rideId /\ p.user_id = userId)}
                 setRide(r) == [r EXCEPT !.status = "active",
                                         !.current_seats = CountOf(left, rideId)]
             IN /\ ride_participants' = left
                /\ rides' = UpdateRide(rides, rideId, setRide)
                /\ Respond("leave", userId, rideId, 200, "Successfully left the ride", FALSE)

\* the already-completed check left out
alreadyCompletedNever(ride) == FALSE

\* if (ride.status === "completed"): "Ride is already completed"
alreadyCompleted(ride) == ride.status = "completed"

\* POST /:id/complete
Complete(userId, rideId) ==
  LET found == RideRows(rideId)
      ride == CHOOSE r \in found : TRUE
      isCreator == ride.creator_id = userId
      isParticipant == HasRow(ride_participants, rideId, userId)
      setRide(r) == [r EXCEPT !.status = "completed", !.completed_by = userId,
                              !.completed_at = now]
  IN /\ idle /\ keepMessages /\ UNCHANGED <<next_ride_id, now, ride_participants>>
     /\ IF found = {}
          THEN /\ Respond("complete", userId, rideId, 404, "Ride not found", FALSE)
               /\ UNCHANGED rides
        ELSE IF ~isCreator /\ ~isParticipant
          THEN /\ Respond("complete", userId, rideId, 403, "You are not authorized to complete this ride", FALSE)
               /\ UNCHANGED rides
        ELSE IF alreadyCompleted(ride)
          THEN /\ Respond("complete", userId, rideId, 400, "Ride is already completed", FALSE)
               /\ UNCHANGED rides
        ELSE /\ rides' = UpdateRide(rides, rideId, setRide)
             /\ Respond("complete", userId, rideId, 200, "Ride marked as completed successfully", FALSE)

\* the check for other participants left out
otherParticipantsNone(rideId, userId) == {}

\* SELECT COUNT(*) FROM ride_participants WHERE ride_id = ? AND user_id != ?
otherParticipants(rideId, userId) ==
  {p \in ParticipantsOf(ride_participants, rideId) : p.user_id # userId}

\* DELETE /:id
DeleteRide(userId, rideId) ==
  LET found == {r \in rides : r.id = rideId /\ r.creator_id = userId}
      ride == CHOOSE r \in found : TRUE
      others == otherParticipants(rideId, userId)
  IN /\ idle /\ UNCHANGED <<next_ride_id, now>>
     /\ IF found = {}
          THEN /\ Respond("delete", userId, rideId, 404, "Ride not found or you don't have permission to delete it", FALSE)
               /\ UNCHANGED <<rides, ride_participants, messages, next_message_id>>
        ELSE IF ride.status = "completed"
          THEN /\ Respond("delete", userId, rideId, 400, "Cannot delete completed rides", FALSE)
               /\ UNCHANGED <<rides, ride_participants, messages, next_message_id>>
        ELSE IF Cardinality(others) > 0
          THEN /\ Respond("delete", userId, rideId, 400, "Cannot delete ride with other participants", FALSE)
               /\ UNCHANGED <<rides, ride_participants, messages, next_message_id>>
        ELSE /\ DeleteRideCascade(rideId)
             /\ Respond("delete", userId, rideId, 200, "Ride deleted successfully", FALSE)

\* a new row of rides that counts its creator as seated
NewRideSeated(id, userId, body, status) ==
  [id |-> id, creator_id |-> userId, destination |-> body.destination,
   date |-> body.date, time_window_start |-> body.timeWindowStart,
   time_window_end |-> body.timeWindowEnd, max_seats |-> forcedMaxSeats,
   current_seats |-> 1, status |-> status,
   completed_by |-> NULL, completed_at |-> NULL]

\* A new row of rides; columns the INSERT does not name take the schema defaults.
NewRide(id, userId, body, status) ==
  [id |-> id, creator_id |-> userId, destination |-> body.destination,
   date |-> body.date, time_window_start |-> body.timeWindowStart,
   time_window_end |-> body.timeWindowEnd, max_seats |-> forcedMaxSeats,
   current_seats |-> 0, status |-> status,
   completed_by |-> NULL, completed_at |-> NULL]

\* POST /match
Match(userId, body) ==
  LET matches == findMatchingRides(body.destination, body.timeWindowStart,
                                   body.timeWindowEnd, body.date, userId)
      insertId == next_ride_id
      inserted == rides \cup {NewRide(insertId, userId, body, "waiting")}
      waitingMatches ==
        findMatchingRidesIn(inserted, ride_participants, body.destination,
                            body.timeWindowStart, body.timeWindowEnd, body.date, userId)
      setRide(r) == [r EXCEPT !.status = "active"]
  IN /\ idle /\ keepMessages /\ UNCHANGED <<now, ride_participants>>
     /\ IF matches # {}
          THEN /\ Respond("match", userId, 0, 200, "hasMatches: true", FALSE)
               /\ UNCHANGED <<rides, next_ride_id>>
          ELSE /\ next_ride_id \in RideIds
               /\ next_ride_id' = next_ride_id + 1
               /\ IF waitingMatches # {}
                    THEN /\ rides' = UpdateRide(inserted, insertId, setRide)
                         /\ Respond("match", userId, insertId, 200, "hasMatches: true", FALSE)
                    ELSE /\ rides' = inserted
                         /\ Respond("match", userId, insertId, 200, "hasMatches: false", FALSE)

\* the existing-ride check of POST /
existingRides(data) ==
  {r \in rides :
     /\ r.date = data.date
     /\ r.status = "active"
     /\ destinationSQL(r.destination, destinationParams(data.destination))
     /\ \/ (r.time_window_start <= data.timeWindowStart
            /\ r.time_window_end >= data.timeWindowStart)
        \/ (r.time_window_start <= data.timeWindowEnd
            /\ r.time_window_end >= data.timeWindowEnd)
        \/ (r.time_window_start >= data.timeWindowStart
            /\ r.time_window_end <= data.timeWindowEnd)}

\* POST /
CreateRide(userId, data) ==
  /\ idle /\ keepMessages /\ UNCHANGED <<now, ride_participants>>
  /\ IF existingRides(data) # {}
       THEN /\ Respond("create", userId, 0, 409, "A matching ride already exists for this time window", FALSE)
            /\ UNCHANGED <<rides, next_ride_id>>
       ELSE /\ next_ride_id \in RideIds
            /\ next_ride_id' = next_ride_id + 1
            /\ rides' = rides \cup {NewRide(next_ride_id, userId, data, "waiting")}
            /\ Respond("create", userId, next_ride_id, 201, "Ride created successfully", FALSE)

(***************************************************************************)
(* Expiration Sweeper.                                                     *)
(***************************************************************************)
\* the SELECT of cleanupExpiredRides
expiredRides ==
  {r \in rides :
     /\ r.status = "active"
     /\ \/ r.date < currentDate
        \/ (r.date = currentDate /\ r.time_window_end < currentTime)}

\* The tables the schema creates.  The sweeper's DELETE names ride_messages,
\* which no CREATE TABLE of the repository defines; chat messages are
\* written to messages.
Tables == {"users", "rides", "ride_participants", "messages"}

\* a statement on a table the schema lacks throws (ER_NO_SUCH_TABLE)
TableExists(t) == t \in Tables

\* The expired rides the sweeper deletes: those without participant rows,
\* when "DELETE FROM ride_messages" succeeds.  When it throws, the catch
\* rolls back and the loop goes on to the next ride, the ride kept.
swept(expired) ==
  IF TableExists("ride_messages")
    THEN {id \in expired : participant_count(id) = 0}
    ELSE {}

\* the expired rides marked completed: those with participant rows
keptExpired(expired) == {id \in expired : participant_count(id) > 0}

\* cleanupExpiredRides run alone; the run is recorded in res the way
\* POST /cleanup answers it.
cleanupExpiredRides ==
  LET expired == {r.id : r \in expiredRides}
      kept == keptExpired(expired)
      gone == swept(expired)
  IN /\ idle /\ UNCHANGED <<next_ride_id, now>>
     /\ rides' = {IF r.id \in kept THEN [r EXCEPT !.status = "completed"] ELSE r :
                    r \in {x \in rides : x.id \notin gone}}
     /\ ride_participants' = {p \in ride_participants : p.ride_id \notin gone}
     /\ messages' = {m \in messages : m.ride_id \notin gone}
     /\ UNCHANGED next_message_id
     /\ Respond("cleanup", 0, 0, 200, "Cleanup completed successfully", FALSE)

\* time passes
Tick ==
  /\ now < MaxClock
  /\ now' = now + 1
  /\ UNCHANGED <<rides, ride_participants, next_ride_id, messages,
                 next_message_id, res, procs, args>>

(***************************************************************************)
(* Lifecycle specification: requests are served one at a time.             *)
(***************************************************************************)
Requests ==
  {[destination |-> "Railway Station", timeWindowStart |-> 0,
    timeWindowEnd |-> 1, date |-> 0]}

Init ==
  /\ rides = {}
  /\ ride_participants = {}
  /\ next_ride_id = 1
  /\ messages = {}
  /\ next_message_id = 1
  /\ now = 0
  /\ res = NoResponse
  /\ procs = <<>>
  /\ args = <<>>

Next ==
  \/ \E u \in Users, b \in Requests : Match(u, b)
  \/ \E u \in Users, b \in Requests : CreateRide(u, b)
  \/ \E u \in Users, r \in RideIds : Join(u, r)
  \/ \E u \in Users, r \in RideIds : JoinMatch(u, r)
  \/ \E u \in Users, r \in RideIds : Leave(u, r)
  \/ \E u \in Users, r \in RideIds : Complete(u, r)
  \/ \E u \in Users, r \in RideIds : DeleteRide(u, r)
  \/ cleanupExpiredRides
  \/ Tick

Spec == Init /\ [][Next]_vars

\* The lifecycle with the sweeper's schedule: server.listen runs
\* cleanupExpiredRides once and setInterval runs it every five minutes, so a
\* run that would change something is not put off forever; time passes.
SpecLive == Init /\ [][Next]_vars /\ WF_vars(cleanupExpiredRides) /\ WF_vars(Tick)

(***************************************************************************)
(* Chat specification: the lifecycle of one ride whose participants send   *)
(* chat messages, requests served one at a time.                           *)
(***************************************************************************)
NumMsgUsers == 2     \* users of the chat specification
MaxMessages == 2     \* messages sent in a run
MaxTime == 3         \* latest time of a window in the window specification

MsgUsers == 1..NumMsgUsers

\* socket.on("sendMessage"): a user holding a participant row on the ride
\* inserts a row of messages; anyone else is answered "Unauthorized".
SendMessage(userId, rideId) ==
  /\ idle /\ UNCHANGED <<rides, ride_participants, next_ride_id, now>>
  /\ next_message_id <= MaxMessages
  /\ IF ~HasRow(ride_participants, rideId, userId)
       THEN /\ Respond("sendMessage", userId, rideId, 403, "Unauthorized", FALSE)
            /\ keepMessages
       ELSE /\ messages' = messages \cup
                   {[id |-> next_message_id, ride_id |-> rideId, user_id |-> userId]}
            /\ next_message_id' = next_message_id + 1
            /\ Respond("sendMessage", userId, rideId, 200, "newMessage", FALSE)

NextMsg ==
  \/ \E u \in MsgUsers, b \in Requests : Match(u, b)
  \/ \E u \in MsgUsers, r \in RideIds : JoinMatch(u, r)
  \/ \E u \in MsgUsers, r \in RideIds : Leave(u, r)
  \/ \E u \in MsgUsers, r \in RideIds : Complete(u, r)
  \/ \E u \in MsgUsers, r \in RideIds : DeleteRide(u, r)
  \/ \E u \in MsgUsers, r \in RideIds : SendMessage(u, r)

SpecMsg == Init /\ [][NextMsg]_vars

(***************************************************************************)
(* Capacity specification: joins and leaves of more users than a ride has  *)
(* seats, served one at a time, on a ride of either of two dates.          *)
(***************************************************************************)
CapRequests ==
  [destination : {"Bus Stand"}, timeWindowStart : {0},
   timeWindowEnd : {1}, date : {0, 1}]

NextCap ==
  \/ \E u \in CapUsers, b \in CapRequests : Match(u, b)
  \/ \E u \in CapUsers, b \in CapRequests : CreateRide(u, b)
  \/ \E u \in CapUsers, r \in RideIds : Join(u, r)
  \/ \E u \in CapUsers, r \in RideIds : JoinMatch(u, r)
  \/ \E u \in CapUsers, r \in RideIds : Leave(u, r)

SpecCap == Init /\ [][NextCap]_vars

(***************************************************************************)
(* Interleaved specification: two join requests in flight on one ride.     *)
(* Every db.execute of a handler is one step; the handlers open no         *)
(* transaction and take no lock, so the steps of two requests interleave   *)
(* at every await.                                                         *)
(***************************************************************************)
Procs == {1, 2}

\* the users of the two requests: neither the creator nor a participant
Racer(p) == forcedMaxSeats + p - 1

Racers == {Racer(p) : p \in Procs}

\* participant rows the ride holds when the requests arrive
ConcStartCounts == {0, forcedMaxSeats - 2, forcedMaxSeats - 1}

NoRide == [id |-> 0]

IdleProc ==
  [pc |-> "idle", route |-> "none", userId |-> 0, rideId |-> 0, ride |-> NoRide,
   count |-> 0, isFirstJoin |-> FALSE, status |-> 0, message |-> ""]

\* A store the lifecycle handlers reach: ride 1 of user 1, never joined
\* (waiting) or joined by users 2..k one after the other (active).
ConcStore(k) ==
  /\ rides = {[NewRide(1, 1, CHOOSE b \in Requests : TRUE,
                       IF k = 0 THEN "waiting" ELSE "active")
                 EXCEPT !.current_seats = k]}
  /\ ride_participants =
       {[ride_id |-> 1, user_id |-> u, joined_at |-> 0] : u \in 1..k}
  /\ next_ride_id = 2

InitConc ==
  /\ \E k \in ConcStartCounts : ConcStore(k)
  /\ messages = {}
  /\ next_message_id = 1
  /\ now = 0
  /\ res = NoResponse
  /\ procs = [p \in Procs |-> IdleProc]
  /\ args = <<>>

quiet == UNCHANGED <<next_ride_id, messages, next_message_id, now, res, args>>

Reply(p, status, message) ==
  procs' = [procs EXCEPT ![p].pc = "done", ![p].status = status,
                         ![p].message = message]

Goto(p, pc) == procs' = [procs EXCEPT ![p].pc = pc]

\* a request arrives
Start(p, route, rideId) ==
  /\ procs[p].pc = "idle"
  /\ procs' = [procs EXCEPT ![p] = [IdleProc EXCEPT !.pc = "select_ride",
                 !.route = route, !.userId = Racer(p), !.rideId = rideId]]
  /\ quiet /\ UNCHANGED <<rides, ride_participants>>

\* SELECT the ride (join: status = 'active'; join-match: status IN
\* ('active','waiting'), with participant_count read in the same statement)
SelectRide(p) ==
  LET me == procs[p]
      wanted == IF me.route = "join" THEN {"active"} ELSE {"active", "waiting"}
      found == {r \in rides : r.id = me.rideId /\ r.status \in wanted}
      ride == CHOOSE r \in found : TRUE
      count == participant_count(me.rideId)
  IN /\ me.pc = "select_ride"
     /\ quiet /\ UNCHANGED <<rides, ride_participants>>
     /\ IF found = {} THEN Reply(p, 404, "Ride not found")
        ELSE IF ride.creator_id = me.userId
          THEN Reply(p, 400, "As the ride creator, you are automatically added")
        ELSE IF me.route = "join"
          THEN procs' = [procs EXCEPT ![p].ride = ride, ![p].pc = "select_existing"]
        ELSE IF RideIsFull(ride, count) THEN Reply(p, 400, "Ride is full")
        ELSE procs' = [procs EXCEPT ![p].ride = ride, ![p].count = count,
                         ![p].isFirstJoin = (count = 0), ![p].pc = "select_existing"]

\* SELECT id FROM ride_participants WHERE ride_id = ? AND user_id = ?
SelectExisting(p) ==
  LET me == procs[p]
  IN /\ me.pc = "select_existing"
     /\ quiet /\ UNCHANGED <<rides, ride_participants>>
     /\ IF HasRow(ride_participants, me.rideId, me.userId)
          THEN Reply(p, 400, "You have already joined this ride")
          ELSE Goto(p, IF me.route = "join" THEN "select_count" ELSE "insert_user")

\* join only: SELECT COUNT(*) FROM ride_participants WHERE ride_id = ?
SelectCount(p) ==
  LET me == procs[p]
      currentParticipants == participant_count(me.rideId)
  IN /\ me.pc = "select_count"
     /\ quiet /\ UNCHANGED <<rides, ride_participants>>
     /\ IF RideIsFull(me.ride, currentParticipants) THEN Reply(p, 400, "Ride is full")
        ELSE procs' = [procs EXCEPT ![p].count = currentParticipants,
                         ![p].isFirstJoin = (currentParticipants = 0),
                         ![p].pc = "insert_user"]

\* INSERT INTO ride_participants: fails on unique_ride_user and on the
\* foreign key to rides; the handler's catch answers 500.
CanInsert(rideId, userId) ==
  /\ RideRows(rideId) # {}
  /\ ~HasRow(ride_participants, rideId, userId)

\* catch (error): res.status(500).json(...)
failed(route) ==
  IF route = "join" THEN "Internal server error" ELSE "Failed to join ride"

InsertUser(p) ==
  LET me == procs[p]
  IN /\ me.pc = "insert_user"
     /\ quiet /\ UNCHANGED rides
     /\ IF CanInsert(me.rideId, me.userId)
          THEN /\ ride_participants' =
                    ride_participants \cup {ParticipantRow(me.rideId, me.userId)}
               /\ Goto(p, IF me.isFirstJoin THEN "insert_creator" ELSE "update_ride")
          ELSE /\ UNCHANGED ride_participants
               /\ Reply(p, 500, failed(me.route))

InsertCreator(p) ==
  LET me == procs[p]
  IN /\ me.pc = "insert_creator"
     /\ quiet /\ UNCHANGED rides
     /\ IF CanInsert(me.rideId, me.ride.creator_id)
          THEN /\ ride_participants' =
                    ride_participants \cup {ParticipantRow(me.rideId, me.ride.creator_id)}
               /\ Goto(p, "update_ride")
          ELSE /\ UNCHANGED ride_participants
               /\ Reply(p, 500, failed(me.route))

\* UPDATE rides SET [status = ?,] current_seats = ? WHERE id = ?
UpdateRideRow(p) ==
  LET me == procs[p]
      newCount == me.count + (IF me.isFirstJoin THEN 2 ELSE 1)
      setJoin(r) == [JoinUpdate([r EXCEPT !.max_seats = me.ride.max_seats], newCount)
                       EXCEPT !.max_seats = r.max_seats]
      setMatch(r) == [JoinMatchUpdate([r EXCEPT !.max_seats = me.ride.max_seats],
                                      newCount)
                        EXCEPT !.max_seats = r.max_seats]
  IN /\ me.pc = "update_ride"
     /\ quiet /\ UNCHANGED ride_participants
     /\ rides' = IF me.route = "join" THEN UpdateRide(rides, me.rideId, setJoin)
                                      ELSE UpdateRide(rides, me.rideId, setMatch)
     /\ Reply(p, 200, "Successfully joined the ride")

NextConc ==
  \/ \E p \in Procs, route \in {"join", "join-match"}, r \in RideIds : Start(p, route, r)
  \/ \E p \in Procs : SelectRide(p)
  \/ \E p \in Procs : SelectExisting(p)
  \/ \E p \in Procs : SelectCount(p)
  \/ \E p \in Procs : InsertUser(p)
  \/ \E p \in Procs : InsertCreator(p)
  \/ \E p \in Procs : UpdateRideRow(p)

SpecConc == InitConc /\ [][NextConc]_vars

(***************************************************************************)
(* Late-join specification: the two interleaved join requests, and joins   *)
(* served alone before, between and after their statements by the creator, *)
(* by the participants and by a user without a row.  Two join-match        *)
(* requests that both read four rows leave six rows on a ride they both    *)
(* mark active, which a later join meets at its capacity check.            *)
(***************************************************************************)
\* the creator, a user holding a row of the store, and a user holding none
LateUsers == {1, 2, forcedMaxSeats - 1}

\* ride 1 of user 1, joined by users 2..4 one after the other
InitLate ==
  /\ ConcStore(forcedMaxSeats - 2)
  /\ messages = {}
  /\ next_message_id = 1
  /\ now = 0
  /\ res = NoResponse
  /\ procs = [p \in Procs |-> IdleProc]
  /\ args = <<>>

NextLate ==
  \/ \E p \in Procs, r \in RideIds : Start(p, "join-match", r)
  \/ \E p \in Procs : SelectRide(p)
  \/ \E p \in Procs : SelectExisting(p)
  \/ \E p \in Procs : InsertUser(p)
  \/ \E p \in Procs : UpdateRideRow(p)
  \/ \E u \in LateUsers, r \in RideIds : Join(u, r)
  \/ \E u \in LateUsers, r \in RideIds : JoinMatch(u, r)
  \/ Tick

SpecLate == InitLate /\ [][NextLate]_vars

(***************************************************************************)
(* Sweeper specification: cleanupExpiredRides, statement by statement,     *)
(* beside one join-match request, statement by statement, on a ride that   *)
(* earlier requests, run alone, created and joined.  db is a connection    *)
(* pool: START TRANSACTION, COMMIT and ROLLBACK go to whichever connection *)
(* the pool hands out, and the join handlers open no transaction, so every *)
(* statement takes effect on its own.                                      *)
(***************************************************************************)
Sweeper == 0         \* the sweeper's place in procs
Joiner == 1          \* the join-match request's place in procs

IdleSweeper ==
  [pc |-> "idle", expired |-> {}, ride |-> 0, participants |-> 0, processed |-> {}]

InitSweep ==
  /\ rides = {}
  /\ ride_participants = {}
  /\ next_ride_id = 1
  /\ messages = {}
  /\ next_message_id = 1
  /\ now = 0
  /\ res = NoResponse
  /\ procs = [p \in {Sweeper, Joiner} |->
                IF p = Sweeper THEN IdleSweeper ELSE IdleProc]
  /\ args = <<>>

\* setInterval fires: SELECT the expired rides
SweepSelect ==
  /\ procs[Sweeper].pc \in {"idle", "done"}
  /\ procs' = [procs EXCEPT ![Sweeper] =
                 [IdleSweeper EXCEPT !.expired = {r.id : r \in expiredRides},
                                     !.pc = IF expiredRides = {} THEN "done" ELSE "loop"]]
  /\ quiet /\ UNCHANGED <<rides, ride_participants>>

\* for (const ride of expiredRides): START TRANSACTION, SELECT its participants
SweepParticipants ==
  LET me == procs[Sweeper]
  IN /\ me.pc = "loop"
     /\ \E id \in me.expired :
          procs' = [procs EXCEPT ![Sweeper].ride = id,
                                 ![Sweeper].expired = me.expired \ {id},
                                 ![Sweeper].participants = participant_count(id),
                                 ![Sweeper].pc = "write"]
     /\ quiet /\ UNCHANGED <<rides, ride_participants>>

\* participants.length > 0: UPDATE rides SET status = 'completed'; else
\* DELETE FROM ride_messages, which throws on the schema's tables (ROLLBACK,
\* next ride) and would otherwise be followed by DELETE FROM rides; COMMIT.
SweepWrite ==
  LET me == procs[Sweeper]
      setRide(r) == [r EXCEPT !.status = "completed"]
      deleted == me.participants = 0 /\ TableExists("ride_messages")
  IN /\ me.pc = "write"
     /\ rides' = IF me.participants > 0 THEN UpdateRide(rides, me.ride, setRide)
                 ELSE IF deleted THEN {r \in rides : r.id # me.ride}
                 ELSE rides
     /\ ride_participants' =
          IF deleted THEN {p \in ride_participants : p.ride_id # me.ride}
                     ELSE ride_participants
     /\ procs' = [procs EXCEPT ![Sweeper].processed = me.processed \cup {me.ride},
                               ![Sweeper].pc = IF me.expired = {} THEN "done"
                                                                  ELSE "loop"]
     /\ UNCHANGED <<next_ride_id, messages, next_message_id, now, res, args>>

NextSweep ==
  \/ \E u \in Users, b \in Requests : Match(u, b)
  \/ \E u \in Users, r \in RideIds : JoinMatch(u, r)
  \/ Tick
  \/ \E r \in RideIds : Start(Joiner, "join-match", r)
  \/ SelectRide(Joiner)
  \/ SelectExisting(Joiner)
  \/ InsertUser(Joiner)
  \/ InsertCreator(Joiner)
  \/ UpdateRideRow(Joiner)
  \/ SweepSelect
  \/ SweepParticipants
  \/ SweepWrite

SpecSweep == InitSweep /\ [][NextSweep]_vars

(***************************************************************************)
(* Match-race specification: two POST /match requests, statement by        *)
(* statement, then joins and sweeper runs served alone.  Two requests that *)
(* both find nothing insert a waiting ride each, find each other's on the  *)
(* second search, and promote their own ride to active without a           *)
(* participant row.                                                        *)
(***************************************************************************)
IdleMatch ==
  [pc |-> "idle", userId |-> 0, body |-> [date |-> 0], insertId |-> 0,
   status |-> 0, message |-> ""]

InitRace ==
  /\ rides = {}
  /\ ride_participants = {}
  /\ next_ride_id = 1
  /\ messages = {}
  /\ next_message_id = 1
  /\ now = 0
  /\ res = NoResponse
  /\ procs = [p \in Procs |-> IdleMatch]
  /\ args = <<>>

\* the rides both requests may create and a third user may join
RaceRideIds == 1..Cardinality(Procs)

\* the search of a request in flight, rides in status active only
matchesOfActive(me) ==
  {r \in findMatchingRides(me.body.destination, me.body.timeWindowStart,
                           me.body.timeWindowEnd, me.body.date, me.userId) :
     r.status = "active"}

\* the search of a request in flight
matchesOf(me) ==
  findMatchingRides(me.body.destination, me.body.timeWindowStart,
                    me.body.timeWindowEnd, me.body.date, me.userId)

\* a POST /match request of user p arrives
MatchStart(p, body) ==
  /\ procs[p].pc = "idle"
  /\ procs' = [procs EXCEPT ![p] = [IdleMatch EXCEPT !.pc = "find", !.userId = p,
                                                     !.body = body]]
  /\ quiet /\ UNCHANGED <<rides, ride_participants>>

\* const matches = await findMatchingRides(...)
MatchFind(p) ==
  LET me == procs[p]
  IN /\ me.pc = "find"
     /\ quiet /\ UNCHANGED <<rides, ride_participants>>
     /\ IF matchesOf(me) # {} THEN Reply(p, 200, "hasMatches: true")
                              ELSE Goto(p, "insert")

\* INSERT INTO rides (..., status) VALUES (..., 'waiting')
MatchInsert(p) ==
  LET me == procs[p]
  IN /\ me.pc = "insert"
     /\ rides' = rides \cup {NewRide(next_ride_id, me.userId, me.body, "waiting")}
     /\ next_ride_id' = next_ride_id + 1
     /\ procs' = [procs EXCEPT ![p].insertId = next_ride_id, ![p].pc = "refind"]
     /\ UNCHANGED <<ride_participants, messages, next_message_id, now, res, args>>

\* const waitingMatches = await findMatchingRides(...)
MatchRefind(p) ==
  LET me == procs[p]
  IN /\ me.pc = "refind"
     /\ quiet /\ UNCHANGED <<rides, ride_participants>>
     /\ IF matchesOf(me) # {} THEN Goto(p, "promote")
                              ELSE Reply(p, 200, "hasMatches: false")

\* UPDATE rides SET status = 'active' WHERE id = ? [result.insertId]
MatchPromote(p) ==
  LET me == procs[p]
      setRide(r) == [r EXCEPT !.status = "active"]
  IN /\ me.pc = "promote"
     /\ rides' = UpdateRide(rides, me.insertId, setRide)
     /\ Reply(p, 200, "hasMatches: true")
     /\ quiet /\ UNCHANGED ride_participants

NextRace ==
  \/ \E p \in Procs, b \in Requests : MatchStart(p, b)
  \/ \E p \in Procs : MatchFind(p)
  \/ \E p \in Procs : MatchInsert(p)
  \/ \E p \in Procs : MatchRefind(p)
  \/ \E p \in Procs : MatchPromote(p)
  \/ \E u \in Users, r \in RaceRideIds : JoinMatch(u, r)
  \/ cleanupExpiredRides
  \/ Tick

SpecRace == InitRace /\ [][NextRace]_vars

(***************************************************************************)
(* Failure specification: cleanupExpiredRides, statement by statement,     *)
(* over the two rides that two racing POST /match requests left active     *)
(* without a participant row, beside join-match requests served alone.     *)
(* Two failures are in the model.  DELETE FROM ride_messages, inside the   *)
(* try block of the loop, throws on the schema's tables: the catch rolls   *)
(* back and the loop goes on.  START TRANSACTION is awaited before the try *)
(* block: when db.execute rejects there, the exception leaves the loop for *)
(* the catch of the function.                                              *)
(***************************************************************************)
InitFail ==
  /\ rides = {NewRide(p, p, b, "active") : p \in Procs, b \in Requests}
  /\ ride_participants = {}
  /\ next_ride_id = Cardinality(Procs) + 1
  /\ messages = {}
  /\ next_message_id = 1
  /\ now = 0
  /\ res = NoResponse
  /\ procs = [p \in {Sweeper} |-> IdleSweeper]
  /\ args = <<>>

\* await db.execute("START TRANSACTION") rejects for a ride of the loop:
\* catch (error) of the function, the run is over
SweepBeginThrows ==
  LET me == procs[Sweeper]
  IN /\ me.pc = "loop"
     /\ \E id \in me.expired :
          procs' = [procs EXCEPT ![Sweeper].ride = id, ![Sweeper].pc = "done"]
     /\ quiet /\ UNCHANGED <<rides, ride_participants>>

NextFail ==
  \/ \E u \in Users, r \in RaceRideIds : JoinMatch(u, r)
  \/ Tick
  \/ SweepSelect
  \/ SweepParticipants
  \/ SweepWrite
  \/ SweepBeginThrows

SpecFail == InitFail /\ [][NextFail]_vars

(***************************************************************************)
(* Creation specification: the two routes that insert a ride.  Two POST    *)
(* /match requests run statement by statement beside POST / requests       *)
(* served alone.                                                           *)
(***************************************************************************)
NextCreate ==
  \/ \E p \in Procs, b \in Requests : MatchStart(p, b)
  \/ \E p \in Procs : MatchFind(p)
  \/ \E p \in Procs : MatchInsert(p)
  \/ \E p \in Procs : MatchRefind(p)
  \/ \E p \in Procs : MatchPromote(p)
  \/ \E u \in Users, b \in Requests : CreateRide(u, b)

SpecCreate == InitRace /\ [][NextCreate]_vars

(***************************************************************************)
(* Resolver specification: areDestinationsCompatible applied to every pair *)
(* of destinations.                                                        *)
(***************************************************************************)
InitCompat ==
  /\ rides = {}
  /\ ride_participants = {}
  /\ next_ride_id = 1
  /\ messages = {}
  /\ next_message_id = 1
  /\ now = 0
  /\ res = NoResponse
  /\ procs = <<>>
  /\ args \in [dest1 : Destinations, dest2 : Destinations,
               called : {FALSE}, compatible : {FALSE}]

Resolve ==
  /\ ~args.called
  /\ args' = [args EXCEPT !.called = TRUE,
                          !.compatible = areDestinationsCompatible(args.dest1, args.dest2)]
  /\ UNCHANGED <<rides, ride_participants, next_ride_id, messages,
                 next_message_id, now, res, procs>>

NextCompat == Resolve

SpecCompat == InitCompat /\ [][NextCompat]_vars

(***************************************************************************)
(* Filter specification: user 1 offers a ride to one destination with      *)
(* POST /match, then findMatchingRides is run for user 2 and another       *)
(* destination, same date and window, beside the resolver's verdict on the *)
(* pair.                                                                   *)
(***************************************************************************)
InitFilter ==
  /\ rides = {}
  /\ ride_participants = {}
  /\ next_ride_id = 1
  /\ messages = {}
  /\ next_message_id = 1
  /\ now = 0
  /\ res = NoResponse
  /\ procs = <<>>
  /\ args \in [dest1 : Destinations, dest2 : Destinations,
               called : {FALSE}, compatible : {FALSE}, found : {FALSE}]

\* the request body of both users, but for the destination
bodyTo(destination) ==
  [(CHOOSE b \in Requests : TRUE) EXCEPT !.destination = destination]

\* user 1 asks for a ride to dest2; no ride exists, so one is inserted
Offer ==
  /\ rides = {}
  /\ Match(1, bodyTo(args.dest2))

\* findMatchingRides for user 2 and dest1, and the resolver on the pair
Ask ==
  LET b == bodyTo(args.dest1)
  IN /\ rides # {} /\ ~args.called
     /\ args' = [args EXCEPT
          !.called = TRUE,
          !.compatible = areDestinationsCompatible(args.dest1, args.dest2),
          !.found = findMatchingRides(b.destination, b.timeWindowStart,
                                      b.timeWindowEnd, b.date, 2) # {}]
     /\ UNCHANGED <<rides, ride_participants, next_ride_id, messages,
                    next_message_id, now, res, procs>>

NextFilter == Offer \/ Ask

SpecFilter == InitFilter /\ [][NextFilter]_vars

(***************************************************************************)
(* Window specification: user 1 offers a ride with one time window with    *)
(* POST /match, then findMatchingRides is run for user 2 with another      *)
(* window, same date and destination.  POST /match does not validate the   *)
(* window, so every pair of times is a window.                             *)
(***************************************************************************)
Times == 0..MaxTime

InitWindow ==
  /\ rides = {}
  /\ ride_participants = {}
  /\ next_ride_id = 1
  /\ messages = {}
  /\ next_message_id = 1
  /\ now = 0
  /\ res = NoResponse
  /\ procs = <<>>
  /\ args \in [s : Times, e : Times, ts : Times, te : Times,
               called : {FALSE}, found : {FALSE}]

\* the request body of both users, but for the window
bodyAt(timeStart, timeEnd) ==
  [(CHOOSE b \in Requests : TRUE) EXCEPT !.timeWindowStart = timeStart,
                                         !.timeWindowEnd = timeEnd]

\* user 1 asks for a ride in [s, e]; no ride exists, so one is inserted
OfferWindow ==
  /\ rides = {}
  /\ Match(1, bodyAt(args.s, args.e))

\* findMatchingRides for user 2 and [ts, te]
AskWindow ==
  LET b == bodyAt(args.ts, args.te)
  IN /\ rides # {} /\ ~args.called
     /\ args' = [args EXCEPT
          !.called = TRUE,
          !.found = findMatchingRides(b.destination, b.timeWindowStart,
                                      b.timeWindowEnd, b.date, 2) # {}]
     /\ UNCHANGED <<rides, ride_participants, next_ride_id, messages,
                    next_message_id, now, res, procs>>

NextWindow == OfferWindow \/ AskWindow

SpecWindow == InitWindow /\ [][NextWindow]_vars

(***************************************************************************)
(* Properties.                                                             *)
(***************************************************************************)
JoinRoutes == {"join", "join-match"}

UsersOn(tbl, rideId) == {p.user_id : p \in ParticipantsOf(tbl, rideId)}

\* the number of participant rows of a ride
Rows(rideId) == Cardinality({p \in ride_participants : p.ride_id = rideId})

\* C1: two concurrent joins by different users on a ride with exactly one
\* free seat never both succeed, and the ride never holds more participant
\* rows than max_seats.
C1_LastSeatJoinedOnce ==
  \A r \in rides :
    LET before == UsersOn(ride_participants, r.id) \ Racers
    IN Cardinality(before) = r.max_seats - 1 =>
         /\ Rows(r.id) <= r.max_seats
         /\ ~(\A p \in Procs : procs[p].status = 200)

\* C2: whatever joins and leaves are served one at a time, a ride holds
\* between 0 and max_seats participant rows, and rows belong to a ride.
C2_CapacityInvariant ==
  /\ \A r \in rides : Rows(r.id) \in 0..r.max_seats
  /\ \A p \in ride_participants : RideRows(p.ride_id) # {}

\* C2 witness: a join was turned away from a ride holding max_seats rows.
C2_Witness ==
  \E r \in rides :
    /\ Rows(r.id) = r.max_seats
    /\ res.route \in JoinRoutes /\ res.rideId = r.id
    /\ res.status # 200 /\ res.userId \notin UsersOn(ride_participants, r.id)

\* C3: a successful join by a user other than the creator on a ride without
\* participant rows leaves exactly two rows: the joiner's and the creator's.
C3_FirstJoinAddsTwo ==
  [][\A r \in rides :
       (/\ res'.route \in JoinRoutes /\ res'.status = 200 /\ res'.rideId = r.id
        /\ Rows(r.id) = 0)
       => /\ res'.userId # r.creator_id
          /\ UsersOn(ride_participants', r.id) = {res'.userId, r.creator_id}
          /\ CountOf(ride_participants', r.id) = 2]_vars

\* C3 witness: a first join was answered 200 and the ride holds two rows.
C3_Witness ==
  \E r \in rides :
    /\ res.route \in JoinRoutes /\ res.status = 200 /\ res.rideId = r.id
    /\ res.isFirstJoin
    /\ res.userId # r.creator_id
    /\ Rows(r.id) = 2

\* C4: once a ride is completed, no later operation changes its status: the
\* ride stays, and stays completed.
C4_CompletedIsTerminal ==
  [][\A r \in rides :
       r.status = "completed"
       => \E n \in rides' : n.id = r.id /\ n.status = "completed"]_vars

\* C5: when the creator leaves a ride other users have rows on, the new
\* creator is one of them and no other of them has a smaller joined_at.
C5_EarliestJoinedBecomesCreator ==
  [][\A r \in rides :
       LET leaver == r.creator_id
           others == {p \in ParticipantsOf(ride_participants, r.id) :
                        p.user_id # leaver}
       IN (/\ res'.route = "leave" /\ res'.status = 200 /\ res'.rideId = r.id
           /\ res'.userId = leaver
           /\ leaver \in UsersOn(ride_participants, r.id)
           /\ others # {})
          => \E n \in rides', p \in others :
               /\ n.id = r.id /\ n.creator_id = p.user_id
               /\ \A q \in others : p.joined_at <= q.joined_at]_vars

\* the last response is the ownership transfer of a leave on ride r
Transferred(r) ==
  /\ res.route = "leave" /\ res.status = 200 /\ res.rideId = r.id
  /\ res.message = "Successfully left the ride. Ownership transferred"

\* C5 witness: ownership went to a user who had joined strictly before
\* another remaining participant.
C5_Witness ==
  \E r \in rides :
    /\ Transferred(r) /\ res.userId # r.creator_id
    /\ \E p, q \in ParticipantsOf(ride_participants, r.id) :
         /\ p.user_id = r.creator_id /\ q.user_id # r.creator_id
         /\ p.joined_at < q.joined_at

\* C6 as stated: after an ownership transfer the promoted user has no
\* participant row on the ride.
C6_PromotedHasNoRow ==
  \A r \in rides :
    Transferred(r) => r.creator_id \notin UsersOn(ride_participants, r.id)

\* C6 amended: after an ownership transfer the creator who left has no
\* participant row on the ride, and the promoted user, another user, keeps
\* theirs.
C6_LeaverRowRemoved ==
  \A r \in rides :
    Transferred(r)
    => /\ res.userId \notin UsersOn(ride_participants, r.id)
       /\ r.creator_id # res.userId
       /\ r.creator_id \in UsersOn(ride_participants, r.id)

\* C6 witness: a transfer happened and the ride still holds the new creator's row.
C6_Witness ==
  \E r \in rides :
    /\ Transferred(r)
    /\ r.creator_id \in UsersOn(ride_participants, r.id)
    /\ res.userId \notin UsersOn(ride_participants, r.id)
    /\ Rows(r.id) = r.current_seats

\* C7: when the creator leaves a ride on which only the creator holds a
\* participant row, the ride becomes cancelled and holds no row afterwards.
C7_LastLeaveCancels ==
  [][\A r \in rides :
       (/\ res'.route = "leave" /\ res'.status = 200 /\ res'.rideId = r.id
        /\ res'.userId = r.creator_id
        /\ UsersOn(ride_participants, r.id) = {r.creator_id})
       => /\ \E n \in rides' : n.id = r.id /\ n.status = "cancelled"
          /\ CountOf(ride_participants', r.id) = 0]_vars

\* C7 witness: the creator's leave was answered with the cancellation.
C7_Witness ==
  \E r \in rides :
    /\ res.route = "leave" /\ res.status = 200 /\ res.rideId = r.id
    /\ res.userId = r.creator_id
    /\ res.message = "Ride cancelled as no other participants were available"
    /\ r.status = "cancelled" /\ Rows(r.id) = 0

\* the Conflict class of the error taxonomy: capacity exceeded, duplicate
\* join, delete-with-participants, double-complete
Conflict(response) ==
  /\ response.status = 400
  /\ response.message \in {"Ride is full", "You have already joined this ride",
                           "Cannot delete ride with other participants",
                           "Ride is already completed"}

\* a complete request on ride r is answered in this step
CompleteAnswered(r) ==
  res' # res /\ res'.route = "complete" /\ res'.rideId = r.id

\* C8 as stated: every complete call on a completed ride is rejected with a
\* Conflict and changes nothing.
C8_CompleteTwiceIsConflict ==
  [][\A r \in rides :
       (r.status = "completed" /\ CompleteAnswered(r))
       => Conflict(res') /\ UNCHANGED <<rides, ride_participants>>]_vars

\* C8 amended: a complete call on a completed ride changes nothing; it is
\* rejected with the Conflict "Ride is already completed" when the caller is
\* the creator or a participant, and as unauthorized (403) otherwise.
C8_AuthorizedCompleteTwiceIsConflict ==
  [][\A r \in rides :
       (r.status = "completed" /\ CompleteAnswered(r))
       => /\ UNCHANGED <<rides, ride_participants>>
          /\ IF \/ res'.userId = r.creator_id
                \/ res'.userId \in UsersOn(ride_participants, r.id)
               THEN Conflict(res') /\ res'.message = "Ride is already completed"
               ELSE res'.status = 403]_vars

\* C8 witness: a complete call on a completed ride was answered
\* "Ride is already completed".
C8_Witness ==
  \E r \in rides :
    /\ r.status = "completed"
    /\ res.route = "complete" /\ res.rideId = r.id
    /\ res.status = 400 /\ res.message = "Ride is already completed"

\* the requests the matcher is asked in every store state
MatchQueries ==
  [destination : {"Bus Stand", "Jio Mart", "Library"}, timeWindowStart : {0},
   timeWindowEnd : {1}, date : {0, 1}]

Found(q, userId) ==
  findMatchingRides(q.destination, q.timeWindowStart, q.timeWindowEnd, q.date, userId)

\* C9: in every store state and for every request, findMatchingRides
\* returns no ride the requester created, no ride that is full or holds
\* max_seats participant rows, and no ride of another date.
C9_MatchExclusion ==
  \A u \in CapUsers, q \in MatchQueries :
    \A r \in Found(q, u) :
      /\ r \in rides
      /\ r.creator_id # u
      /\ r.status # "full"
      /\ Rows(r.id) < r.max_seats
      /\ r.date = q.date

\* C9 witness: POST /match told a user of a matching ride; the matcher
\* returns that ride to the user, and nothing to the ride's creator or for
\* another date.
C9_Witness ==
  \E r \in rides, q \in MatchQueries :
    /\ res.route = "match" /\ res.message = "hasMatches: true"
    /\ res.userId # r.creator_id
    /\ r \in Found(q, res.userId)
    /\ Found(q, r.creator_id) = {}
    /\ Found([q EXCEPT !.date = 1 - q.date], res.userId) = {}

\* C10: the resolver's verdict on a pair of destinations of the grouping
\* table is its verdict on the swapped pair.
C10_CompatibleSymmetric ==
  (/\ args.called
   /\ args.dest1 \in TableDestinations /\ args.dest2 \in TableDestinations)
  => args.compatible = areDestinationsCompatible(args.dest2, args.dest1)

\* C10 witness: the resolver found a shopping destination compatible with a
\* transport-hub destination, the pair only the overlap case accepts.
C10_Witness ==
  /\ args.called /\ args.compatible
  /\ args.dest1 = "Jio Mart" /\ args.dest2 = "Railway Station"
  /\ getDestinationGroup(args.dest1).group = "shopping"
  /\ getDestinationGroup(args.dest2).group = "transport_hub"

\* C11: in every state the handlers and the sweeper leave behind, a ride's
\* current_seats is the number of its participant rows.
C11_NoSeatDrift ==
  \A r \in rides : r.current_seats = Rows(r.id)

\* a DELETE /:id on ride id is answered in this step
DeleteAnswered(id) ==
  /\ res'.route = "delete" /\ res'.rideId = id
  /\ (res' # res \/ rides' # rides)

\* user U may delete ride id: U is its creator, the ride is not completed,
\* and nobody but U holds a participant row on it
MayDelete(U, id) ==
  \E r \in rides :
    /\ r.id = id /\ r.creator_id = U /\ r.status # "completed"
    /\ UsersOn(ride_participants, id) \subseteq {U}

\* C12: a DELETE /:id by U removes the ride, with its participant rows and
\* its messages, only when U is the creator, the ride is not completed and
\* no other user holds a row on it; every other call is rejected and leaves
\* rides, participants and messages as they were.
C12_DeleteOnlyWhenAllowed ==
  [][\A id \in RideIds :
       DeleteAnswered(id)
       => IF MayDelete(res'.userId, id)
            THEN /\ res'.status = 200
                 /\ \A r \in rides' : r.id # id
                 /\ \A p \in ride_participants' : p.ride_id # id
                 /\ \A m \in messages' : m.ride_id # id
            ELSE /\ res'.status \in {400, 404}
                 /\ UNCHANGED <<rides, ride_participants, messages>>]_vars

\* C12 witness: the creator's DELETE was answered 200 on a ride that had
\* chat messages; the ride and its messages are gone.
C12_Witness ==
  /\ res.route = "delete" /\ res.status = 200
  /\ RideRows(res.rideId) = {}
  /\ next_message_id > 1 /\ messages = {}

\* C13: the sweeper and a join-match on the same expired ride leave what one
\* of them after the other leaves.  The sweeper marks every expired active
\* ride holding participant rows completed, and a join-match on a completed
\* ride is turned away, so in either order the ride ends completed: once the
\* sweeper's pass over the ride and the request are both over, the ride is
\* completed.
C13_SweepAndJoinSerial ==
  \A r \in rides :
    (/\ procs[Sweeper].pc = "done" /\ r.id \in procs[Sweeper].processed
     /\ procs[Joiner].pc \in {"idle", "done"}
     /\ Rows(r.id) > 0)
    => r.status = "completed"

\* C14: a join request that fails after its first INSERT leaves nothing
\* behind: a request answered 500 has no participant row of its user on the
\* ride.
C14_JoinAllOrNothing ==
  \A p \in Procs :
    (procs[p].pc = "done" /\ procs[p].status = 500)
    => ~HasRow(ride_participants, procs[p].rideId, procs[p].userId)

\* a sweeper run ends in this step: no request in flight moves, the clock
\* stands, and the run is answered or rewrites rides
SweepRan ==
  /\ res'.route = "cleanup"
  /\ procs' = procs /\ now' = now
  /\ (res' # res \/ rides' # rides)

\* C15: a sweeper run marks every ride it selects as expired completed, and
\* keeps it with its participant rows, when the ride holds a participant
\* row; it deletes the ride and the ride's messages when the ride holds none.
C15_SweepCompletesOrDeletes ==
  [][SweepRan
     => \A r \in expiredRides :
          IF Rows(r.id) > 0
            THEN /\ \E n \in rides' : n.id = r.id /\ n.status = "completed"
                 /\ ParticipantsOf(ride_participants', r.id)
                      = ParticipantsOf(ride_participants, r.id)
            ELSE /\ \A n \in rides' : n.id # r.id
                 /\ \A m \in messages' : m.ride_id # r.id]_vars

\* the window of ride r has elapsed on the sweeper's clock
Elapsed(r) ==
  \/ r.date < currentDate
  \/ (r.date = currentDate /\ r.time_window_end < currentTime)

OpenStatuses == {"waiting", "active", "full"}

\* ride id is open although its window has elapsed
Overdue(id) ==
  \E r \in rides : r.id = id /\ r.status \in OpenStatuses /\ Elapsed(r)

\* ride id is deleted or its status is no longer an open one
Retired(id) ==
  \A r \in rides : r.id = id => r.status \notin OpenStatuses

\* C16: with the sweeper running on its schedule, every waiting, active or
\* full ride whose window has elapsed is eventually deleted or given a
\* status that is not waiting, active or full.
C16_OverdueEventuallyRetired ==
  \A id \in RideIds : Overdue(id) ~> Retired(id)

\* C17: once a ride is cancelled, no later operation changes its status:
\* the ride stays cancelled for as long as it exists.
C17_CancelledIsTerminal ==
  [][\A r \in rides :
       r.status = "cancelled"
       => \A n \in rides' : n.id = r.id => n.status = "cancelled"]_vars

\* a join or join-match on ride id is answered in this step
JoinAnswered(id) ==
  /\ res'.route \in JoinRoutes /\ res'.rideId = id
  /\ procs' = procs /\ now' = now
  /\ (res' # res \/ ride_participants' # ride_participants)

\* ride id exists with a status a join accepts
Joinable(id) ==
  \E r \in rides : r.id = id /\ r.status \in {"active", "waiting"}

\* C18: both join handlers answer 404 exactly when the ride does not exist
\* or its status is not active or waiting.
C18_JoinNotFoundExactly ==
  [][\A id \in RideIds :
       JoinAnswered(id) => (res'.status = 404 <=> ~Joinable(id))]_vars

\* C19: a join by a user without a row on a ride that is full, holding
\* max_seats participant rows, is answered with the Conflict "Ride is full"
\* and changes neither the ride nor its participant rows.
C19_SeventhJoinIsConflict ==
  [][\A r \in rides :
       (/\ JoinAnswered(r.id)
        /\ r.status = "full" /\ Rows(r.id) = r.max_seats
        /\ res'.userId \notin UsersOn(ride_participants, r.id))
       => /\ Conflict(res') /\ res'.message = "Ride is full"
          /\ UNCHANGED <<rides, ride_participants>>]_vars

\* C20: status tracks capacity: a ride whose status is full holds max_seats
\* participant rows, and an active ride holds fewer.
C20_FullIffAtCapacity ==
  \A r \in rides :
    /\ r.status = "full" => Rows(r.id) = r.max_seats
    /\ r.status = "active" => Rows(r.id) < r.max_seats

\* the messages of the three rejections of a join
JoinRejections ==
  {"As the ride creator, you are automatically added",
   "You have already joined this ride", "Ride is full"}

\* C21: a join turned away because the caller is the creator, already holds
\* a row, or would exceed max_seats changes neither rides (current_seats,
\* status, creator) nor the participant rows; and after every step no user
\* holds two participant rows on one ride.
C21_RejectedJoinChangesNothing ==
  [][/\ \A id \in RideIds :
          (JoinAnswered(id) /\ res'.status = 400)
          => /\ res'.message \in JoinRejections
             /\ UNCHANGED <<rides, ride_participants>>
      /\ \A p, q \in ride_participants' :
           (p.ride_id = q.ride_id /\ p.user_id = q.user_id) => p = q]_vars

\* C21 witness: a join by a user without a row was turned away with
\* "Ride is full" from an open ride holding max_seats rows.
C21_Witness ==
  \E r \in rides :
    /\ res.route \in JoinRoutes /\ res.rideId = r.id
    /\ res.status = 400 /\ res.message = "Ride is full"
    /\ r.status \in {"active", "waiting"}
    /\ Rows(r.id) >= r.max_seats
    /\ res.userId \notin UsersOn(ride_participants, r.id)

\* C22: for destinations d and c of the grouping table, findMatchingRides
\* returns an eligible ride to c for a request to d exactly when
\* areDestinationsCompatible(d, c) is true.
C22_FilterAgreesWithResolver ==
  (/\ args.called
   /\ args.dest1 \in TableDestinations /\ args.dest2 \in TableDestinations)
  => (args.found <=> args.compatible)

\* C23: two different destinations that no group of the table lists are not
\* compatible.
C23_OffTableOnlyWithItself ==
  (/\ args.called
   /\ args.dest1 \notin TableDestinations /\ args.dest2 \notin TableDestinations
   /\ args.dest1 # args.dest2)
  => ~args.compatible

\* C24: two destinations equal up to letter case are compatible, and the
\* matcher returns a ride to one for a request to the other.
C24_CaseInsensitive ==
  (args.called /\ LOWER(args.dest1) = LOWER(args.dest2))
  => (args.compatible /\ args.found)


\* C25: with a candidate window [s, e] and a requested window [ts, te],
\* s < e and ts < te, the time condition of findMatchingRides holds exactly
\* when s <= te and ts <= e: the search finds the ride iff the windows
\* overlap, bounds included.
C25_TimeConditionIsOverlap ==
  (args.called /\ args.s < args.e /\ args.ts < args.te)
    => (args.found <=> (args.s <= args.te /\ args.ts <= args.e))

\* a candidate strictly inside the requested window is found
C25_Witness ==
  /\ args.called /\ args.found
  /\ args.ts < args.s /\ args.s < args.e /\ args.e < args.te


\* the rides a step inserts
Inserted == {r \in rides' : r.id \notin {x.id : x \in rides}}

\* what C26 says of one step
CreatedStep ==
  /\ \A r \in Inserted :
       /\ r.current_seats = 0
       /\ r.status = "waiting"
       /\ ParticipantsOf(ride_participants', r.id) = {}
  /\ \A r \in rides, q \in rides' :
       (r.id = q.id /\ r # q) =>
         /\ q = [r EXCEPT !.status = "active"]
         /\ r.status = "waiting"
         /\ ParticipantsOf(ride_participants', r.id) = {}
         /\ \E p \in Procs :
              /\ procs[p].insertId = r.id
              /\ matchesOf(procs[p]) # {}
              /\ procs'[p].message = "hasMatches: true"

\* C26: a ride inserted by POST /match or POST / is stored with
\* current_seats = 0, without a participant row (its creator's included) and
\* in status waiting; the only write that follows in the request sets the
\* status to active, and only when the second search of POST /match found a
\* match and the request answers hasMatches true.
C26_CreatedRideIsEmptyAndWaiting == [][CreatedStep]_vars

\* C26 witness: a POST /match request that inserted a ride answered
\* hasMatches true; its ride is active, with no seat taken and no row.
C26_Witness ==
  \E p \in Procs, r \in rides :
    /\ procs[p].pc = "done" /\ procs[p].insertId = r.id
    /\ procs[p].message = "hasMatches: true"
    /\ r.creator_id = procs[p].userId
    /\ r.status = "active" /\ r.current_seats = 0
    /\ ParticipantsOf(ride_participants, r.id) = {}


\* C27: a sweeper run in which the processing of a ride fails still goes
\* through every other ride it selected: when the run is over, the only
\* selected ride that may be left unprocessed is the one that failed.
C27_FailureDoesNotStopSweep ==
  procs[Sweeper].pc = "done"
    => procs[Sweeper].expired \subseteq {procs[Sweeper].ride}


\* C28: with requests served one at a time, a ride that has a participant
\* row has a participant row of its creator.
C28_CreatorAmongParticipants ==
  \A r \in rides :
    Rows(r.id) > 0 => r.creator_id \in UsersOn(ride_participants, r.id)

\* C28 witness: the creator left a ride with other participants; the ride
\* went to a participant who holds a row, and the leaver holds none.
C28_Witness ==
  \E r \in rides :
    /\ res.route = "leave" /\ res.status = 200 /\ res.rideId = r.id
    /\ res.userId # r.creator_id
    /\ res.userId \notin UsersOn(ride_participants, r.id)
    /\ Rows(r.id) > 0
    /\ r.creator_id \in UsersOn(ride_participants, r.id)
    /\ res.message = "Successfully left the ride. Ownership transferred"


\* what C29 says of one step: a ride that is waiting after the step has no
\* participant row, and was waiting before the step if it existed
StaysUnjoined ==
  \A r \in rides' :
    r.status = "waiting" =>
      /\ ParticipantsOf(ride_participants', r.id) = {}
      /\ \A q \in rides : q.id = r.id => q.status = "waiting"

BothInserted ==
  \A p \in Procs : procs[p].pc = "done" /\ procs[p].insertId # 0

\* request p was answered hasMatches true, the ride of the other request
\* among the rides its second search returned
ToldOfOther(p) ==
  /\ procs[p].message = "hasMatches: true"
  /\ \E q \in Procs \ {p} :
       \E r \in matchesOf(procs[p]) : r.id = procs[q].insertId

====
